---- MODULE Spec2Model ----
(***************************************************************************)
(* Semantic highlighting of rust-analyzer (crates/ra_ide/src/              *)
(* syntax_highlighting.rs) with the token primitives it uses               *)
(* (crates/ra_syntax/src/ast/tokens.rs).                                   *)
(*                                                                         *)
(* A highlighting pass is a loop over the enter/leave events of a preorder *)
(* walk.  The syntax tree, the name resolver, macro expansion and call     *)
(* information are inputs of the pass: the walk events are drawn one by    *)
(* one from bounded sets, together with the answers the semantic oracle    *)
(* gives for the entered element.  The loop body, the classifier, the      *)
(* shadow table, the macro context and the injection of fixture literals   *)
(* are translated from the source.                                         *)
(*                                                                         *)
(* LineIndex (crates/ra_ide_db/src/line_index.rs) and the quote offsets of *)
(* a string token are functions of a text; a second specification,         *)
(* SpecText, draws the text from a bounded set and calls them.             *)
(***************************************************************************)
EXTENDS Integers, Sequences, FiniteSets, TLC

VARIABLES
    frames,     \* call stack of highlight() activations; the last one runs
    status,     \* "run" | "done" | "panic_macro" | "panic_map" | "panic_unwrap"
    result,     \* the Vec<HighlightedRange> returned by the outermost pass
    ev,         \* the walk event handled by the last step (history)
    docClass,   \* the family of documents the input tree is drawn from
    input,      \* the str a LineIndex is built for, or a token's text
    lineIndex,  \* LineIndex::new(input)
    call        \* the last call on text or lineIndex, with what it returned

vars == <<frames, status, result, ev, docClass, input, lineIndex, call>>
textVars == <<input, lineIndex, call>>

(***************************************************************************)
(* Bounds of the model.                                                    *)
(***************************************************************************)
MaxDocLen == 3      \* text length of a document of class "locals", in bytes
MaxMacroDocLen == 6 \* text length of a document of class "macros", in bytes
MaxViewDocLen == 4  \* text length of a document of class "viewport", in bytes
MaxDepth == 3       \* open nodes below the root of one walk
MaxElems == 5       \* freely chosen elements of one walk (the root excluded)
MaxInject == 1      \* nesting depth of injected passes
MaxContent == 4     \* bytes between the quotes of a raw string literal
MaxTokDocLen == 2   \* text length of a document of class "tokens", in bytes
MaxTextLen == 3     \* chars of a text given to LineIndex::new or of a token
MaxFairDocLen == 6  \* text length of a document walked to its end under fairness
MaxTokStart == 2    \* offset in its file of a token asked for its quotes

Names == {"x", "y"}

(***************************************************************************)
(* Option<T>: None is the empty sequence, Some(x) the one-element one.     *)
(***************************************************************************)
None == <<>>
Some(x) == <<x>>
IsSome(o) == Len(o) = 1
IsNone(o) == Len(o) = 0
Unwrap(o) == o[1]

Max2(a, b) == IF a >= b THEN a ELSE b
Min2(a, b) == IF a <= b THEN a ELSE b

(***************************************************************************)
(* text_size::TextRange, half open [start, end).                           *)
(***************************************************************************)
TextRange(s, e) == [start |-> s, end |-> e]

\* TextRange::intersect: None only when the ranges are strictly apart;
\* ranges that merely touch intersect in an empty range.
intersect(a, b) ==
    LET s == Max2(a.start, b.start)
        e == Min2(a.end, b.end)
    IN  IF e < s THEN None ELSE Some(TextRange(s, e))

contains_range(outer, inner) ==
    outer.start <= inner.start /\ inner.end <= outer.end

\* TextRange + TextSize
Shift(r, o) == TextRange(r.start + o, r.end + o)

(***************************************************************************)
(* Token text: a sequence of one-byte characters.                          *)
(***************************************************************************)
Quote == "\""

\* str::find / str::rfind for a single character, zero-based byte index.
find(text, c) ==
    LET hits == {i \in 1..Len(text) : text[i] = c}
    IN  IF hits = {} THEN None
        ELSE Some((CHOOSE i \in hits : \A j \in hits : i <= j) - 1)

rfind(text, c) ==
    LET hits == {i \in 1..Len(text) : text[i] = c}
    IN  IF hits = {} THEN None
        ELSE Some((CHOOSE i \in hits : \A j \in hits : i >= j) - 1)

\* QuoteOffsets::new
QuoteOffsetsAtAny(l, r, end) ==
    IF IsNone(l) \/ IsNone(r) THEN None
    ELSE Some([quotes |-> <<TextRange(0, Unwrap(l) + 1),
                            TextRange(Unwrap(r), end)>>,
               contents |-> TextRange(Unwrap(l) + 1, Unwrap(r))])
QuoteOffsetsAt(l, r, end) ==
    IF IsNone(l) \/ IsNone(r) THEN None
    ELSE IF Unwrap(l) = Unwrap(r) THEN None
    ELSE Some([quotes |-> <<TextRange(0, Unwrap(l) + 1),
                            TextRange(Unwrap(r), end)>>,
               contents |-> TextRange(Unwrap(l) + 1, Unwrap(r))])

QuoteOffsetsNew(literal) ==
    QuoteOffsetsAt(find(literal, Quote), rfind(literal, Quote), Len(literal))

\* HasQuotes::quote_offsets of a token [text, range]
ShiftOffsets(offsets, o) ==
    IF IsNone(offsets) THEN None
    ELSE Some([quotes |-> <<Shift(Unwrap(offsets).quotes[1], o),
                            Shift(Unwrap(offsets).quotes[2], o)>>,
               contents |-> Shift(Unwrap(offsets).contents, o)])

quote_offsets(tok) == ShiftOffsets(QuoteOffsetsNew(tok.text), tok.range.start)

OpenQuote(offsets) ==
    IF IsNone(offsets) THEN None ELSE Some(Unwrap(offsets).quotes[1])
CloseQuoteOf(offsets) ==
    IF IsNone(offsets) THEN None ELSE Some(Unwrap(offsets).quotes[2])
Contents(offsets) ==
    IF IsNone(offsets) THEN None ELSE Some(Unwrap(offsets).contents)

open_quote_text_range(tok) == OpenQuote(quote_offsets(tok))
close_quote_text_range(tok) == CloseQuoteOf(quote_offsets(tok))
text_range_between_quotes(tok) == Contents(quote_offsets(tok))

\* <RawString as HasStringValue>::value: the text between the quotes, verbatim
SliceOf(tok, c) ==
    IF IsNone(c) THEN None
    ELSE Some(SubSeq(tok.text, Unwrap(c).start - tok.range.start + 1,
                     Unwrap(c).end - tok.range.start))

RawStringText(tok) == Some(tok.text)
RawStringValue(tok) == SliceOf(tok, text_range_between_quotes(tok))

\* RawString::map_range_up.  The assertion failing is the outcome "panic".
MapRangeWithin(contents_range, range) ==
    IF IsNone(contents_range)
    THEN [panic |-> FALSE, value |-> None]
    ELSE IF ~contains_range(Unwrap(contents_range), range)
    THEN [panic |-> TRUE, value |-> None]
    ELSE [panic |-> FALSE,
          value |-> Some(Shift(range, Unwrap(contents_range).start))]

map_range_up(tok, range) ==
    MapRangeWithin(text_range_between_quotes(tok), range)

(***************************************************************************)
(* Highlight = tag + modifier set (tags.rs is used through its interface). *)
(***************************************************************************)
Highlight(tag) == [tag |-> tag, mods |-> {}]
WithMod(h, m) == [h EXCEPT !.mods = @ \cup {m}]

\* SyntaxKind::is_keyword
Keywords ==
    {"AS_KW", "ASYNC_KW", "AWAIT_KW", "BOX_KW", "BREAK_KW", "CONST_KW",
     "CONTINUE_KW", "CRATE_KW", "DYN_KW", "ELSE_KW", "ENUM_KW", "EXTERN_KW",
     "FALSE_KW", "FN_KW", "FOR_KW", "IF_KW", "IMPL_KW", "IN_KW", "LET_KW",
     "LOOP_KW", "MACRO_KW", "MATCH_KW", "MOD_KW", "MOVE_KW", "MUT_KW",
     "PUB_KW", "REF_KW", "RETURN_KW", "SELF_KW", "STATIC_KW", "STRUCT_KW",
     "SUPER_KW", "TRAIT_KW", "TRUE_KW", "TRY_KW", "TYPE_KW", "UNSAFE_KW",
     "USE_KW", "WHERE_KW", "WHILE_KW", "AUTO_KW", "DEFAULT_KW",
     "EXISTENTIAL_KW", "UNION_KW"}

is_keyword(k) == k \in Keywords

ControlFlowKeywords ==
    {"BREAK_KW", "CONTINUE_KW", "ELSE_KW", "FOR_KW", "IF_KW", "LOOP_KW",
     "MATCH_KW", "RETURN_KW", "WHILE_KW"}

(***************************************************************************)
(* The shadow table, FxHashMap<Name, u32>: a function on the set of its    *)
(* keys.  entry(name).or_default() inserts the key with 0 when absent.     *)
(***************************************************************************)
EmptyTable == [n \in {} |-> 0]
OrDefault(table, name) ==
    [n \in DOMAIN table \cup {name} |->
        IF n \in DOMAIN table THEN table[n] ELSE 0]
Bump(table, name) ==
    [n \in DOMAIN table \cup {name} |->
        IF n = name THEN OrDefault(table, name)[name] + 1 ELSE table[n]]

\* calc_binding_hash: DefaultHasher over the pair (name, shadow_count).  The
\* 64-bit SipHash value is abstracted to the pair it hashes, i.e. the hash is
\* taken to be free of collisions.
calc_binding_hash(name, shadow_count) == <<name, shadow_count>>

(***************************************************************************)
(* hir::Definition as seen by highlight_name: its variant, and for a local *)
(* its name (Local::name may be None) and whether it is mutable or has a   *)
(* mutable reference type.  `local` identifies the binding and `fn` the    *)
(* function whose body holds it; the code reads neither.                   *)
(***************************************************************************)
DefTag ==
    [Macro |-> "Macro", StructField |-> "Field", Module |-> "Module",
     Function |-> "Function", Struct |-> "Struct", Enum |-> "Enum",
     Union |-> "Union", EnumVariant |-> "EnumVariant", Const |-> "Constant",
     Static |-> "Static", Trait |-> "Trait", TypeAlias |-> "TypeAlias",
     BuiltinType |-> "BuiltinType", SelfType |-> "SelfType",
     TypeParam |-> "TypeParam", Local |-> "Local"]

highlight_name(def) ==
    IF def.kind = "Local"
    THEN IF def.isMut THEN WithMod(Highlight("Local"), "Mutable")
         ELSE Highlight("Local")
    ELSE Highlight(DefTag[def.kind])

highlight_name_by_syntax(parentKind) ==
    CASE parentKind = "STRUCT_DEF" -> Highlight("Struct")
      [] parentKind = "ENUM_DEF" -> Highlight("Enum")
      [] parentKind = "UNION_DEF" -> Highlight("Union")
      [] parentKind = "TRAIT_DEF" -> Highlight("Trait")
      [] parentKind = "TYPE_ALIAS_DEF" -> Highlight("TypeAlias")
      [] parentKind = "TYPE_PARAM" -> Highlight("TypeParam")
      [] parentKind = "RECORD_FIELD_DEF" -> Highlight("Field")
      [] OTHER -> Highlight("Function")

NoDef == [kind |-> "Function", name |-> None, isMut |-> FALSE,
          local |-> 0, fn |-> 0]
LocalDef(name, isMut, local, fn) ==
    [kind |-> "Local", name |-> name, isMut |-> isMut,
     local |-> local, fn |-> fn]
OtherDef(kind) == [NoDef EXCEPT !.kind = kind]

(***************************************************************************)
(* A syntax element as the classifier sees it: its kind, the kind of its   *)
(* parent, whether an ATTR is among its ancestors, and what classify_name  *)
(* / classify_name_ref answer for it.                                      *)
(***************************************************************************)
Element(kind, parentKind) ==
    [kind |-> kind, parentKind |-> parentKind, inAttr |-> FALSE,
     nameClass |-> "None", nameRefClass |-> "None", def |-> NoDef]

Classified(h, hash, table) == [hl |-> h, hash |-> hash, table |-> table]

\* The FN_DEF arm of highlight_element
FnDefArm(table) == Classified(None, None, EmptyTable)

\* The NAME arm
NameArm(table, el) ==
    LET isLocalDef == el.nameClass = "Definition" /\ el.def.kind = "Local"
                      /\ IsSome(el.def.name)
        name == Unwrap(el.def.name)
        t2 == IF isLocalDef THEN Bump(table, name) ELSE table
        hash == IF isLocalDef
                THEN Some(calc_binding_hash(name, t2[name])) ELSE None
        h == CASE el.nameClass = "Definition" ->
                    WithMod(highlight_name(el.def), "Definition")
               [] el.nameClass = "ConstReference" -> highlight_name(el.def)
               [] OTHER -> WithMod(highlight_name_by_syntax(el.parentKind),
                                   "Definition")
    IN  Classified(Some(h), hash, t2)

\* The NAME_REF arms
NameRefArmBump(table, el) ==
    IF el.inAttr THEN Classified(None, None, table)
    ELSE IF el.nameRefClass = "None" THEN Classified(None, None, table)
    ELSE IF el.nameRefClass = "FieldShorthand"
         THEN Classified(Some(Highlight("Field")), None, table)
    ELSE LET isLocal == el.def.kind = "Local" /\ IsSome(el.def.name)
             name == Unwrap(el.def.name)
             t2 == IF isLocal THEN Bump(table, name) ELSE table
             hash == IF isLocal
                     THEN Some(calc_binding_hash(name, t2[name])) ELSE None
         IN  Classified(Some(highlight_name(el.def)), hash, t2)
NameRefArm(table, el) ==
    IF el.inAttr THEN Classified(None, None, table)
    ELSE IF el.nameRefClass = "None" THEN Classified(None, None, table)
    ELSE IF el.nameRefClass = "FieldShorthand"
         THEN Classified(Some(Highlight("Field")), None, table)
    ELSE LET isLocal == el.def.kind = "Local" /\ IsSome(el.def.name)
             name == Unwrap(el.def.name)
             t2 == IF isLocal THEN OrDefault(table, name) ELSE table
             hash == IF isLocal
                     THEN Some(calc_binding_hash(name, t2[name])) ELSE None
         IN  Classified(Some(highlight_name(el.def)), hash, t2)

\* The keyword arm
KeywordArmPlain(k) == Highlight("Keyword")
KeywordArm(k) ==
    IF k \in ControlFlowKeywords
    THEN WithMod(Highlight("Keyword"), "ControlFlow")
    ELSE IF k = "UNSAFE_KW" THEN WithMod(Highlight("Keyword"), "Unsafe")
    ELSE Highlight("Keyword")

\* highlight_element: the highlight and binding hash of the element, if
\* any, and the shadow table afterwards.
highlight_element(table, el) ==
    CASE el.kind = "FN_DEF" -> FnDefArm(table)
      [] el.kind = "NAME" -> NameArm(table, el)
      [] el.kind = "NAME_REF" -> NameRefArm(table, el)
      [] el.kind = "COMMENT" ->
            Classified(Some(Highlight("Comment")), None, table)
      [] el.kind \in {"STRING", "RAW_STRING", "RAW_BYTE_STRING", "BYTE_STRING"} ->
            Classified(Some(Highlight("StringLiteral")), None, table)
      [] el.kind = "ATTR" ->
            Classified(Some(Highlight("Attribute")), None, table)
      [] el.kind \in {"INT_NUMBER", "FLOAT_NUMBER"} ->
            Classified(Some(Highlight("NumericLiteral")), None, table)
      [] el.kind = "BYTE" ->
            Classified(Some(Highlight("ByteLiteral")), None, table)
      [] el.kind = "CHAR" ->
            Classified(Some(Highlight("CharLiteral")), None, table)
      [] el.kind = "LIFETIME" ->
            Classified(
                Some(IF el.parentKind \in {"LIFETIME_PARAM", "LABEL"}
                     THEN WithMod(Highlight("Lifetime"), "Definition")
                     ELSE Highlight("Lifetime")),
                None, table)
      [] is_keyword(el.kind) ->
            Classified(Some(KeywordArm(el.kind)), None, table)
      [] OTHER -> Classified(None, None, table)

(***************************************************************************)
(* Walk events.  An event carries what the pass can read from the tree and *)
(* from the semantic oracle for its element:                               *)
(*   el    the element itself as the classifier sees it                    *)
(*   desc  Semantics::descend_into_macros of a token: the kind of the      *)
(*         token in the expansion and its parent there                     *)
(*   lit   a RAW_STRING token's text and call_info_for_token's answer      *)
(*   hdr   what macro_call_range reads of a MACRO_CALL node                *)
(* id identifies the node or token within its tree.                        *)
(***************************************************************************)
NoDesc == [kind |-> "NONE", parent |-> Element("NONE", "NONE")]
NoLit == [text |-> <<>>, ci |-> None]
NoHdr == [hasPath |-> FALSE, hasNameRef |-> FALSE,
          nameRef |-> TextRange(0, 0), sibs |-> <<>>]

Event(op, isNode, id, range, el, desc, lit, hdr) ==
    [op |-> op, isNode |-> isNode, id |-> id, kind |-> el.kind,
     range |-> range, parentKind |-> el.parentKind,
     el |-> el, desc |-> desc, lit |-> lit, hdr |-> hdr]

NoEvent == Event("init", FALSE, 0, TextRange(0, 0), Element("NONE", "NONE"),
                 NoDesc, NoLit, NoHdr)

\* macro_call_range: from the name of the path's own (last) segment to the
\* end of the last `!` or IDENT among the path's following siblings.
RECURSIVE SiblingsEnd(_, _)
SiblingsEnd(sibs, range_end) ==
    IF sibs = <<>> THEN range_end
    ELSE SiblingsEnd(Tail(sibs),
                     IF Head(sibs).kind \in {"BANG", "IDENT"}
                     THEN Head(sibs).range.end ELSE range_end)

macro_call_range(mc) ==
    IF ~mc.hasPath \/ ~mc.hasNameRef THEN None
    ELSE Some(TextRange(mc.nameRef.start,
                        SiblingsEnd(mc.sibs, mc.nameRef.end)))

(***************************************************************************)
(* The output accumulator.  Every HighlightedRange is stored with a        *)
(* history field `own`: the element the range was produced for (the event  *)
(* that entered it, its range, the macro calls open around it), what part  *)
(* of it the range is, the binding and function a local name belongs to,   *)
(* and how often the shadow table had been cleared before.                 *)
(***************************************************************************)
Own(at, range, macros, what, local, isDef, fn, epoch) ==
    [at |-> at, range |-> range, macros |-> macros, what |-> what,
     local |-> local, isDef |-> isDef, fn |-> fn, epoch |-> epoch]

Entry(range, highlight, binding_hash, own) ==
    [range |-> range, highlight |-> highlight,
     binding_hash |-> binding_hash, own |-> own]

\* Vec::push
PushFront(acc, h) == <<h>> \o acc
Push(acc, h) == Append(acc, h)

(***************************************************************************)
(* One activation of highlight().                                          *)
(***************************************************************************)
NewFrame(len, rth, ranged) ==
    [rootEnd |-> len, rth |-> rth, ranged |-> ranged,
     \* the walk: open nodes, text position, forced events still to come
     stack |-> <<>>, pos |-> 0, script |-> <<>>, nEv |-> 0, nElems |-> 0,
     \* the bindings the resolver knows in this document
     locals |-> <<>>,
     \* locals of highlight()
     res |-> <<>>, table |-> EmptyTable, cmc |-> None,
     \* the literal whose nested pass this activation waits for
     lit |-> None,
     done |-> FALSE,
     \* history
     nestedMc |-> FALSE, nestedEnter |-> FALSE, clears |-> 0,
     \* the same walk by a request for the whole file (range None)
     full |-> [on |-> FALSE, res |-> <<>>, table |-> EmptyTable,
               cmc |-> None, panic |-> FALSE]]

OpenMacros(f) ==
    {f.stack[i].id : i \in {j \in 1..Len(f.stack) : f.stack[j].kind = "MACRO_CALL"}}

\* The element handed to the classifier (lines 103-118): inside a macro only
\* tokens directly under a TOKEN_TREE are considered, after expansion, and a
\* NAME / NAME_REF parent of an expanded IDENT stands in for the token.
element_unexpanded(cmc, e) == Some(e.el)
element_to_highlight(cmc, e) ==
    IF IsSome(cmc)
    THEN IF ~e.isNode /\ e.parentKind = "TOKEN_TREE"
         THEN IF e.desc.kind = "IDENT" /\ e.desc.parent.kind \in {"NAME", "NAME_REF"}
              THEN Some(e.desc.parent)
              ELSE Some(Element(e.desc.kind, e.desc.parent.kind))
         ELSE None
    ELSE Some(e.el)

FixturePrefix == <<"r", "a", "_", "f", "i", "x", "t", "u", "r", "e">>

starts_with(s, prefix) ==
    Len(s) >= Len(prefix) /\ SubSeq(s, 1, Len(prefix)) = prefix

\* highlight_injection up to `literal.value()?` (lines 316-322): the decoded
\* content when the literal is to be injected, None when the function
\* returns None.
InjectionValueAnyName(tok, ci) ==
    IF IsNone(ci) THEN None
    ELSE IF IsNone(Unwrap(ci).active_parameter) THEN None
    ELSE IF Unwrap(Unwrap(ci).active_parameter) >= Len(Unwrap(ci).parameter_names)
         THEN None
    ELSE RawStringValue(tok)

InjectionValue(tok, ci) ==
    IF IsNone(ci) THEN None
    ELSE IF IsNone(Unwrap(ci).active_parameter) THEN None
    ELSE IF Unwrap(Unwrap(ci).active_parameter) >= Len(Unwrap(ci).parameter_names)
         THEN None
    ELSE IF ~starts_with(
               Unwrap(ci).parameter_names[Unwrap(Unwrap(ci).active_parameter) + 1],
               FixturePrefix)
         THEN None
    ELSE RawStringValue(tok)

\* Leaving a MACRO_CALL node (lines 88-92)
LeaveMacroCallNoClear(cmc, id) ==
    IF cmc # Some(id) THEN [panic |-> TRUE, cmc |-> cmc]
    ELSE [panic |-> FALSE, cmc |-> cmc]
LeaveMacroCallNoAssert(cmc, id) == [panic |-> FALSE, cmc |-> None]
LeaveMacroCall(cmc, id) ==
    IF cmc # Some(id) THEN [panic |-> TRUE, cmc |-> cmc]
    ELSE [panic |-> FALSE, cmc |-> None]

\* The viewport test (line 71)
InViewportAlways(rth, event_range) == TRUE
InViewport(rth, event_range) == IsSome(intersect(rth, event_range))

TokenOf(e) == [text |-> e.lit.text, range |-> e.range]

\* The body of the loop of highlight() for one event, up to the call of the
\* nested analysis: the accumulator, the shadow table and the macro context
\* afterwards; whether the assertion failed; and the literal to inject, if
\* highlight_injection got as far as running the nested analysis.
Kept(f) == [res |-> f.res, table |-> f.table, cmc |-> f.cmc,
            panic |-> FALSE, unwrap |-> FALSE, inject |-> None]

OwnOf(f, e, what, local, isDef, fn) ==
    Own(e.id, e.range, OpenMacros(f), what, local, isDef, fn, f.clears)

PushQuote(acc, range, own, what) ==
    IF IsSome(range)
    THEN Push(acc, Entry(Unwrap(range), Highlight("StringLiteral"), None,
                         [own EXCEPT !.what = what]))
    ELSE acc

PushMacroHashed(acc, range, own) ==
    IF IsSome(range)
    THEN Push(acc, Entry(Unwrap(range), Highlight("Macro"),
                         Some(calc_binding_hash("x", 0)), own))
    ELSE acc
PushMacro(acc, range, own) ==
    IF IsSome(range)
    THEN Push(acc, Entry(Unwrap(range), Highlight("Macro"), None, own))
    ELSE acc

\* lines 77-87
OnEnterMacroCall(f, e) ==
    [Kept(f) EXCEPT
       !.cmc = Some(e.id),
       !.res = PushMacro(@, macro_call_range(e.hdr),
                         OwnOf(f, e, "macro", 0, FALSE, 0))]

\* lines 88-92
Left(f, l) == [Kept(f) EXCEPT !.cmc = l.cmc, !.panic = l.panic]
OnLeaveMacroCall(f, e) == Left(f, LeaveMacroCall(f.cmc, e.id))

\* lines 325-331, after which the nested analysis runs
OnInjection(f, e) ==
    [Kept(f) EXCEPT
       !.inject = Some(TokenOf(e)),
       !.res = PushQuote(@, open_quote_text_range(TokenOf(e)),
                         OwnOf(f, e, "open", 0, FALSE, 0), "open")]

\* let range = element.text_range() (line 101): the range of the element the
\* walk entered, not of what stands for it in the expansion.
RangeOfExpanded(e) == TextRange(0, e.range.end - e.range.start)
RangeOf(e) == e.range

\* lines 127-131
Pushed(f, e, x, c) ==
    [Kept(f) EXCEPT
       !.table = c.table,
       !.res = IF IsSome(c.hl)
               THEN Push(@, Entry(RangeOf(e), Unwrap(c.hl), c.hash,
                            IF x.kind \in {"NAME", "NAME_REF"} /\ IsSome(c.hash)
                            THEN OwnOf(f, e, "element", x.def.local,
                                       x.kind = "NAME", x.def.fn)
                            ELSE OwnOf(f, e, "element", 0, FALSE, 0)))
               ELSE @]

OnElement(f, e, x) == Pushed(f, e, x, highlight_element(f.table, x))

\* SyntaxElement::as_token of the element handed to the classifier for a
\* token: inside a macro call it is a node when the NAME / NAME_REF parent
\* of the expanded IDENT stands in for the token (line 113).
as_token(e, x) ==
    IF e.isNode \/ x.kind \in {"NAME", "NAME_REF"} THEN None ELSE Some(x)

\* lines 120-131.  Line 121 unwraps as_token for every RAW_STRING token,
\* before highlight_injection: the outcome "unwrap" is its panic.
Highlighted(f, e, eth) ==
    IF IsNone(eth) THEN Kept(f)
    ELSE IF ~e.isNode /\ e.kind = "RAW_STRING"
            /\ IsNone(as_token(e, Unwrap(eth)))
    THEN [Kept(f) EXCEPT !.unwrap = TRUE]
    ELSE IF ~e.isNode /\ e.kind = "RAW_STRING"
            /\ IsSome(InjectionValue(TokenOf(e), e.lit.ci))
    THEN OnInjection(f, e)
    ELSE OnElement(f, e, Unwrap(eth))

LoopBody(f, e) ==
    IF ~InViewport(f.rth, e.range) THEN Kept(f)
    ELSE IF e.isNode /\ e.kind = "MACRO_CALL"
    THEN IF e.op = "enter" THEN OnEnterMacroCall(f, e)
         ELSE OnLeaveMacroCall(f, e)
    ELSE IF e.op = "leave" THEN Kept(f)
    ELSE Highlighted(f, e, element_to_highlight(f.cmc, e))

\* The rest of highlight_injection once the nested pass has returned (lines
\* 333-348): the nested ranges, translated, then the closing quote.
Translated(acc, h, r, own) ==
    IF IsSome(r.value)
    THEN Push(acc, Entry(Unwrap(r.value), h.highlight, h.binding_hash, own))
    ELSE acc

RECURSIVE MapUp(_, _, _, _)
MapUpStep(tok, nested, acc, own, r) ==
    IF r.panic THEN [panic |-> TRUE, acc |-> acc]
    ELSE MapUp(tok, Tail(nested), Translated(acc, Head(nested), r, own), own)

MapUp(tok, nested, acc, own) ==
    IF nested = <<>> THEN [panic |-> FALSE, acc |-> acc]
    ELSE MapUpStep(tok, nested, acc, own, map_range_up(tok, Head(nested).range))

CloseQuote(tok, acc, own) ==
    PushQuote(acc, close_quote_text_range(tok), own, "close")

Closed(tok, m, own) ==
    IF m.panic THEN m
    ELSE [panic |-> FALSE, acc |-> CloseQuote(tok, m.acc, own)]

FinishInjectionCloseFirst(tok, nested, acc, own) ==
    MapUp(tok, nested, CloseQuote(tok, acc, own), own)
FinishInjection(tok, nested, acc, own) ==
    Closed(tok, MapUp(tok, nested, acc, own), own)

(***************************************************************************)
(* The inputs: the syntax tree, generated event by event, and the answers  *)
(* of the semantic oracle.  A node is entered with its whole range, which  *)
(* its children then have to tile; tokens are never empty.                 *)
(***************************************************************************)
Classes == {"locals", "macros", "inject", "viewport", "tokens"}

\* Token kinds of the classifier's token arms, keywords apart.
PlainTokenKinds ==
    {"COMMENT", "STRING", "RAW_BYTE_STRING", "BYTE_STRING", "INT_NUMBER",
     "FLOAT_NUMBER", "BYTE", "CHAR", "LIFETIME", "WHITESPACE"}
RangedClasses == {"viewport"}

Active == frames[Len(frames)]
Top(f) == f.stack[Len(f.stack)]
ParentKind(f) == IF f.stack = <<>> THEN "NONE" ELSE Top(f).kind
Room(f) == Top(f).range.end - f.pos

Innermost(f, kind) ==
    LET idx == {i \in 1..Len(f.stack) : f.stack[i].kind = kind}
    IN  IF idx = {} THEN 0
        ELSE f.stack[CHOOSE i \in idx : \A j \in idx : i >= j].id

\* The function whose body holds the bindings of the current position; 0
\* when the walk has entered no FN_DEF around it.
CurFn(f) == Innermost(f, "FN_DEF")

\* A function defined by the expansion of macro call `mc`.
ExpansionFn(mc) == 0 - mc

\* Where a token of a macro call's token tree can land in the expansion: in
\* the function around the call, or in a function the expansion defines.
ExpandedFns(f) ==
    {CurFn(f)} \cup
    (IF Innermost(f, "MACRO_CALL") = 0 THEN {}
     ELSE {ExpansionFn(Innermost(f, "MACRO_CALL"))})

Tok(kind, len) == [op |-> "token", kind |-> kind, len |-> len]
Node(kind, len) == [op |-> "node", kind |-> kind, len |-> len]
Leave == [op |-> "leave", kind |-> "NONE", len |-> 0]

LocalsIn(f, fns) == {l \in 1..Len(f.locals) : f.locals[l].fn \in fns}

\* classify_name for a NAME: a new local binding called n of a function,
\* some other definition, or nothing
LocalAnswers(f, parentKind, fns, names) ==
    {[el |-> [Element("NAME", parentKind) EXCEPT
                !.nameClass = "Definition",
                !.def = LocalDef(Some(n), FALSE, Len(f.locals) + 1, fn)],
      local |-> Some([name |-> n, fn |-> fn])] : n \in names, fn \in fns \ {0}}

NameAnswers(f, parentKind, fns, names) ==
    LocalAnswers(f, parentKind, fns, names)
    \cup
    {[el |-> [Element("NAME", parentKind) EXCEPT
                !.nameClass = "Definition", !.def = OtherDef("Function")],
      local |-> None],
     [el |-> Element("NAME", parentKind), local |-> None]}

\* classify_name_ref for a NAME_REF: a local binding of the function the
\* reference stands in, or nothing
NameRefAnswers(f, parentKind, fns) ==
    {[el |-> [Element("NAME_REF", parentKind) EXCEPT
                !.nameRefClass = "Definition",
                !.def = LocalDef(Some(f.locals[l].name), FALSE, l,
                                 f.locals[l].fn)],
      local |-> None] : l \in LocalsIn(f, fns)}
    \cup
    {[el |-> Element("NAME_REF", parentKind), local |-> None]}

IdentScript == <<Tok("IDENT", 1), Leave>>

\* The children of a MACRO_CALL up to its token tree, for `m!`, `a::m!`,
\* `#[a(1)] m!` (an outer attribute is a child of the call it stands on and
\* has a token tree of its own) and a call without a path.
MacroShapes == {"simple", "qualified", "attributed", "nopath"}

HeaderLen(shape) ==
    CASE shape = "simple" -> 2
      [] shape = "qualified" -> 5
      [] shape = "attributed" -> 4
      [] OTHER -> 0

MacroScript(shape, len) ==
    CASE shape = "simple" ->
            <<Node("PATH", 1), Node("PATH_SEGMENT", 1), Node("NAME_REF", 1),
              Tok("IDENT", 1), Leave, Leave, Leave, Tok("BANG", 1),
              Node("TOKEN_TREE", len - 2)>>
      [] shape = "qualified" ->
            <<Node("PATH", 4), Node("PATH", 1), Node("PATH_SEGMENT", 1),
              Node("NAME_REF", 1), Tok("IDENT", 1), Leave, Leave, Leave,
              Tok("COLON2", 2), Node("PATH_SEGMENT", 1), Node("NAME_REF", 1),
              Tok("IDENT", 1), Leave, Leave, Leave, Tok("BANG", 1),
              Node("TOKEN_TREE", len - 5)>>
      [] shape = "attributed" ->
            <<Node("ATTR", 2), Tok("POUND", 1), Node("TOKEN_TREE", 1),
              Tok("INT_NUMBER", 1), Leave, Leave,
              Node("PATH", 1), Node("PATH_SEGMENT", 1), Node("NAME_REF", 1),
              Tok("IDENT", 1), Leave, Leave, Leave, Tok("BANG", 1),
              Node("TOKEN_TREE", len - 4)>>
      [] OTHER -> <<Node("TOKEN_TREE", len)>>

MacroHeader(shape, start, len) ==
    CASE shape = "simple" ->
            [hasPath |-> TRUE, hasNameRef |-> TRUE,
             nameRef |-> TextRange(start, start + 1),
             sibs |-> <<[kind |-> "PATH", range |-> TextRange(start, start + 1)],
                        [kind |-> "BANG", range |-> TextRange(start + 1, start + 2)],
                        [kind |-> "TOKEN_TREE",
                         range |-> TextRange(start + 2, start + len)]>>]
      [] shape = "qualified" ->
            [hasPath |-> TRUE, hasNameRef |-> TRUE,
             nameRef |-> TextRange(start + 3, start + 4),
             sibs |-> <<[kind |-> "PATH", range |-> TextRange(start, start + 4)],
                        [kind |-> "BANG", range |-> TextRange(start + 4, start + 5)],
                        [kind |-> "TOKEN_TREE",
                         range |-> TextRange(start + 5, start + len)]>>]
      [] shape = "attributed" ->
            [hasPath |-> TRUE, hasNameRef |-> TRUE,
             nameRef |-> TextRange(start + 2, start + 3),
             sibs |-> <<[kind |-> "PATH",
                         range |-> TextRange(start + 2, start + 3)],
                        [kind |-> "BANG",
                         range |-> TextRange(start + 3, start + 4)],
                        [kind |-> "TOKEN_TREE",
                         range |-> TextRange(start + 4, start + len)]>>]
      [] OTHER -> NoHdr

NodeChoice(el, len, hdr, script, local) ==
    [el |-> el, len |-> len, hdr |-> hdr, script |-> script, local |-> local]

\* The nodes that may be entered next.  The walk takes any tree.  Besides
\* tokens, the model lets two nodes stand in a token tree: another macro call,
\* the case the assertion of line 89 is about, and a function definition, the
\* node that would clear the shadow table if it reached highlight_element.
NodeChoices(f) ==
    LET pk == ParentKind(f)
        inMacro == Innermost(f, "MACRO_CALL") # 0 \/ pk = "TOKEN_TREE"
        plain(kind) == {NodeChoice(Element(kind, pk), len, NoHdr, <<>>, None) :
                            len \in 1..Room(f)}
        named(answers) ==
            IF Room(f) < 1 THEN {}
            ELSE {NodeChoice(a.el, 1, NoHdr, IdentScript, a.local) : a \in answers}
        macros(shapes) ==
            UNION {{NodeChoice(Element("MACRO_CALL", pk), len,
                               MacroHeader(shape, f.pos, len),
                               MacroScript(shape, len), None) :
                       len \in {n \in 1..Room(f) : n > HeaderLen(shape)}} :
                   shape \in shapes}
        args == {NodeChoice(Element("ARG_LIST", pk), len, NoHdr,
                            <<Tok("L_PAREN", 1)>>, None) :
                    len \in 2..Room(f)}
    IN  CASE docClass = "locals" ->
                plain("FN_DEF")
                \cup named(NameAnswers(f, pk, {CurFn(f)}, Names)
                           \cup NameRefAnswers(f, pk, {CurFn(f)}))
          [] docClass = "macros" ->
                macros(MacroShapes)
                \cup (IF inMacro
                      THEN IF pk = "TOKEN_TREE" THEN plain("FN_DEF") ELSE {}
                      ELSE plain("FN_DEF")
                           \cup named(LocalAnswers(f, pk, {CurFn(f)}, {"x"})))
          [] docClass = "viewport" ->
                macros({"simple"})
                \cup (IF inMacro THEN {}
                      ELSE plain("FN_DEF")
                           \cup named(LocalAnswers(f, pk, {CurFn(f)}, {"x"})
                                      \cup NameRefAnswers(f, pk, {CurFn(f)})))
          [] docClass = "tokens" -> plain("ATTR")
          [] OTHER ->
                args
                \cup (IF Len(frames) = 1 THEN {}
                      ELSE plain("FN_DEF")
                           \cup named(LocalAnswers(f, pk, {CurFn(f)}, {"x"})))

RawText(n) ==
    <<"r", Quote>> \o [i \in 1..n |-> "c"] \o <<Quote>>

RawTexts == {RawText(n) : n \in 0..MaxContent} \cup {<<"r", Quote>>}

Signature(active, names) ==
    Some([active_parameter |-> active, parameter_names |-> names])

\* call_info_for_token: no call around the token; a call whose active
\* parameter is unknown, lies beyond the signature, or has another name; a
\* call whose active parameter is a fixture
CallInfos ==
    {None,
     Signature(None, <<FixturePrefix>>),
     Signature(Some(1), <<FixturePrefix>>),
     Signature(Some(0), <<<<"t", "e", "x", "t">>>>),
     Signature(Some(0), <<<<"r", "a", "_", "f", "i", "x">>>>),
     Signature(Some(0), <<FixturePrefix>>),
     Signature(Some(1), <<<<"t", "e", "x", "t">>, FixturePrefix \o <<"_", "2">>>>)}

TokenChoice(el, len, desc, lit, local) ==
    [el |-> el, len |-> len, desc |-> desc, lit |-> lit, local |-> local]

Same(kind, parentKind) == [kind |-> kind, parent |-> Element(parentKind, "NONE")]

\* The tokens that may come next.  A token directly under a TOKEN_TREE comes
\* with its counterpart in the expansion.
TokenChoices(f) ==
    LET pk == ParentKind(f)
        simple(kind, lens) ==
            {TokenChoice(Element(kind, pk), len, Same(kind, pk), NoLit, None) :
                len \in {n \in lens : n <= Room(f)}}
        expanded ==
            IF Room(f) < 1 THEN {}
            ELSE {TokenChoice(Element("IDENT", pk), 1,
                              [kind |-> "IDENT", parent |-> a.el], NoLit, a.local) :
                     a \in LocalAnswers(f, "BIND_PAT", ExpandedFns(f), {"x"})
                           \cup NameRefAnswers(f, "PATH_SEGMENT", ExpandedFns(f))}
        raw == {TokenChoice(Element("RAW_STRING", pk), Len(t),
                            Same("RAW_STRING", pk), [text |-> t, ci |-> ci], None) :
                   t \in {x \in RawTexts : Len(x) <= Room(f)},
                   ci \in IF pk = "ARG_LIST" THEN CallInfos ELSE {None}}
    IN  CASE docClass = "locals" -> simple("COMMENT", {1})
          [] docClass = "macros" ->
                IF pk = "TOKEN_TREE"
                THEN expanded \cup simple("FN_KW", {1})
                ELSE simple("WHITESPACE", {1})
          [] docClass = "viewport" ->
                IF pk = "TOKEN_TREE" THEN simple("FN_KW", {1})
                ELSE simple("COMMENT", {1})
          [] docClass = "tokens" ->
                UNION {simple(k, {1}) : k \in PlainTokenKinds \cup Keywords}
          [] OTHER ->
                simple("WHITESPACE", 1..3) \cup simple("FN_KW", {1})
                \cup (IF Len(frames) <= MaxInject THEN raw ELSE {})

(***************************************************************************)
(* Text as a str: a sequence of chars, each with its length in UTF-8 bytes *)
(* and in UTF-16 code units.  Offsets count bytes.                         *)
(***************************************************************************)
Newline == "\n"
Chars == {"a", Newline, Quote, "U+00E9", "U+20AC", "U+1F600"}

\* TextSize::of(c), char::len_utf8
len_utf8(c) ==
    CASE c = "U+00E9" -> 2
      [] c = "U+20AC" -> 3
      [] c = "U+1F600" -> 4
      [] OTHER -> 1

\* char::len_utf16
len_utf16(c) == IF c = "U+1F600" THEN 2 ELSE 1

\* The bytes of a str: a char of several bytes is its lead byte followed by
\* continuation bytes, none of which is an ASCII byte.
RECURSIVE Utf8(_)
Utf8(str) ==
    IF str = <<>> THEN <<>>
    ELSE <<Head(str)>> \o [i \in 1..(len_utf8(Head(str)) - 1) |-> "cont"]
         \o Utf8(Tail(str))

(***************************************************************************)
(* LineIndex (crates/ra_ide_db/src/line_index.rs).                         *)
(***************************************************************************)
Utf16Char(start, end) == [start |-> start, end |-> end]
Utf16CharLen(c) == c.end - c.start

NoLines == [l \in {} |-> <<>>]
Insert(map, key, value) ==
    [l \in DOMAIN map \cup {key} |-> IF l = key THEN value ELSE map[l]]

\* The locals of LineIndex::new before its loop (lines 37-43)
NewStart ==
    [newlines |-> <<0>>, utf16_lines |-> NoLines, utf16_chars |-> <<>>,
     curr_row |-> 0, curr_col |-> 0, line |-> 0]

\* Save any utf-16 characters seen in the line (lines 50-53, 70-72)
Saved(st) ==
    IF st.utf16_chars # <<>>
    THEN [st EXCEPT !.utf16_lines = Insert(@, st.line, st.utf16_chars),
                    !.utf16_chars = <<>>]
    ELSE st

\* One iteration of the loop over text.chars() (lines 44-67)
NewStep(st, c) ==
    IF c = Newline
    THEN [Saved(st) EXCEPT
            !.curr_row = st.curr_row + len_utf8(c),
            !.newlines = Append(@, st.curr_row + len_utf8(c)),
            !.curr_col = 0,
            !.line = @ + 1]
    ELSE [st EXCEPT
            !.curr_row = @ + len_utf8(c),
            !.utf16_chars =
                IF len_utf8(c) > 1
                THEN Append(@, Utf16Char(st.curr_col, st.curr_col + len_utf8(c)))
                ELSE @,
            !.curr_col = @ + len_utf8(c)]

RECURSIVE NewLoop(_, _)
NewLoop(st, str) ==
    IF str = <<>> THEN st ELSE NewLoop(NewStep(st, Head(str)), Tail(str))

Built(st) == [newlines |-> st.newlines, utf16_lines |-> st.utf16_lines]

\* LineIndex::new
LineIndexNew(str) == Built(Saved(NewLoop(NewStart, str)))

\* superslice: the index of the first element not less than x / greater
\* than x, the length if there is none (indices count from 0).
FirstIndex(hits, len) ==
    IF hits = {} THEN len ELSE (CHOOSE i \in hits : \A j \in hits : i <= j) - 1
lower_bound(v, x) == FirstIndex({i \in 1..Len(v) : v[i] >= x}, Len(v))
upper_bound(v, x) == FirstIndex({i \in 1..Len(v) : v[i] > x}, Len(v))

\* LineIndex::utf8_to_utf16_col: the loop over the line's wide chars
RECURSIVE Correction(_, _)
Correction(utf16_chars, col) ==
    IF utf16_chars = <<>> THEN 0
    ELSE IF col >= Head(utf16_chars).end
    THEN (Utf16CharLen(Head(utf16_chars)) - 1) + Correction(Tail(utf16_chars), col)
    ELSE 0

utf8_to_utf16_col(index, line, col) ==
    col - (IF line \in DOMAIN index.utf16_lines
           THEN Correction(index.utf16_lines[line], col)
           ELSE 0)

\* LineIndex::line_col
LineCol(line, col_utf16) == [line |-> line, col_utf16 |-> col_utf16]
LineColAt(index, line, offset) ==
    LineCol(line, utf8_to_utf16_col(index, line, offset - index.newlines[line + 1]))
line_col_first_line(index, offset) == LineColAt(index, 0, offset)
line_col(index, offset) ==
    LineColAt(index, upper_bound(index.newlines, offset) - 1, offset)

\* LineIndex::utf16_to_utf8_col: the loop over the line's wide chars
RECURSIVE Utf8Col(_, _)
Utf8Col(utf16_chars, col) ==
    IF utf16_chars = <<>> THEN col
    ELSE IF col >= Head(utf16_chars).start
    THEN Utf8Col(Tail(utf16_chars), col + (Utf16CharLen(Head(utf16_chars)) - 1))
    ELSE col

utf16_to_utf8_col(index, line, col) ==
    IF line \in DOMAIN index.utf16_lines
    THEN Utf8Col(index.utf16_lines[line], col)
    ELSE col

\* LineIndex::offset
offset(index, line_col_) ==
    index.newlines[line_col_.line + 1]
    + utf16_to_utf8_col(index, line_col_.line, line_col_.col_utf16)

\* LineIndex::lines
Zip(all) ==
    [i \in 1..(Len(all) - 1) |-> TextRange(all[i], all[i + 1])]
WithEmpty(ranges) == ranges
NonEmpty(ranges) == SelectSeq(ranges, LAMBDA r : r.start # r.end)
Slice(v, lo, hi) == SubSeq(v, lo + 1, hi)
lines(index, range) ==
    NonEmpty(Zip(<<range.start>>
                 \o Slice(index.newlines,
                          lower_bound(index.newlines, range.start),
                          upper_bound(index.newlines, range.end))
                 \o <<range.end>>))

(***************************************************************************)
(* The state machine.                                                      *)
(***************************************************************************)
Call(op, arg, out) == [op |-> op, arg |-> arg, out |-> out]
NoCall == Call("none", 0, 0)

DocLens(cls) ==
    CASE cls = "locals" -> 1..MaxDocLen
      [] cls = "macros" -> 1..MaxMacroDocLen
      [] cls = "viewport" -> 1..MaxViewDocLen
      [] cls = "tokens" -> 1..MaxTokDocLen
      [] OTHER -> 1..(MaxContent + 4)

\* range_to_highlight: None (the whole file) or Some(range)
Viewports(cls, len) ==
    {[ranged |-> FALSE, rth |-> TextRange(0, len)]}
    \cup
    (IF cls \in RangedClasses
     THEN {v \in [ranged : {TRUE},
                  rth : [start : 0..len, end : 0..len]] :
              v.rth.start <= v.rth.end}
     ELSE {})

\* The root of the walk: the file, or the node covering the requested range.
RootKinds(f) ==
    IF ~f.ranged THEN {"SOURCE_FILE"}
    ELSE {"SOURCE_FILE", "FN_DEF", "TOKEN_TREE"}

Init ==
    /\ docClass \in Classes
    /\ \E len \in DocLens(docClass) :
         \E v \in Viewports(docClass, len) :
            frames = <<NewFrame(len, v.rth, v.ranged)>>
    /\ status = "run"
    /\ result = <<>>
    /\ ev = NoEvent
    /\ input = <<>>
    /\ lineIndex = LineIndexNew(input)
    /\ call = NoCall

SetTop(g) == [frames EXCEPT ![Len(frames)] = g]

\* highlight(db, file_id, None) on the file of a ranged request: its root is
\* the file (line 55), where the ranged walk starts at the covering node
\* (lines 47-51); the two walks see the same events when that node is the
\* file.  The activation f with the locals of that other call.
IsFileWalk(f, e) ==
    IF f.stack = <<>> THEN e.kind = "SOURCE_FILE"
    ELSE f.stack[1].kind = "SOURCE_FILE"

WholeFile(f) ==
    [f EXCEPT !.rth = TextRange(0, f.rootEnd), !.res = f.full.res,
              !.table = f.full.table, !.cmc = f.full.cmc]

\* The record is kept up to the first literal the whole-file request would
\* run a nested analysis for (lines 120-124): from there on its result is
\* not known to the ranged walk, and the record is given up (on = FALSE).
FullBody(f, fb) ==
    IF IsSome(fb.inject)
    THEN [f.full EXCEPT !.on = FALSE]
    ELSE [on |-> TRUE, res |-> fb.res, table |-> fb.table, cmc |-> fb.cmc,
          panic |-> f.full.panic \/ fb.panic \/ fb.unwrap]

FullStep(f, e) ==
    IF f.ranged /\ IsFileWalk(f, e) /\ ~f.full.panic
       /\ (f.stack = <<>> \/ f.full.on)
    THEN FullBody(f, LoopBody(WholeFile(f), e))
    ELSE f.full

\* One iteration of the loop of highlight(): f is the activation before the
\* event, g the same with the walk advanced past the event e.
Updated(f, g, e, b) ==
    [g EXCEPT
       !.res = b.res, !.table = b.table, !.cmc = b.cmc,
       !.lit = IF IsSome(b.inject)
               THEN Some([tok |-> Unwrap(b.inject),
                          own |-> OwnOf(f, e, "nested", 0, FALSE, 0)])
               ELSE @,
       !.full = FullStep(f, e),
       !.clears = IF e.op = "enter" /\ e.kind = "FN_DEF" /\ IsNone(f.cmc)
                     /\ InViewport(f.rth, e.range)
                  THEN @ + 1 ELSE @,
       !.nestedEnter =
           @ \/ (e.op = "enter" /\ e.isNode /\ e.kind = "MACRO_CALL"
                 /\ InViewport(f.rth, e.range) /\ IsSome(f.cmc))]

Called(len) == NewFrame(len, TextRange(0, len), FALSE)

CommitBody(g2, e, b) ==
    /\ ev' = e
    /\ UNCHANGED <<result, docClass, textVars>>
    /\ status' = IF b.panic THEN "panic_macro"
                 ELSE IF b.unwrap THEN "panic_unwrap"
                 ELSE status
    /\ frames' = IF IsSome(b.inject)
                 THEN Append(SetTop(g2),
                             Called(Len(Unwrap(RawStringValue(Unwrap(b.inject))))))
                 ELSE SetTop(g2)

CommitWith(f, g, e, b) == CommitBody(Updated(f, g, e, b), e, b)

Commit(f, g, e) == CommitWith(f, g, e, LoopBody(f, e))

Opened(f, kind, len) ==
    [kind |-> kind, id |-> f.nEv + 1,
     range |-> TextRange(f.pos, f.pos + len)]

WithLocal(locals, local) ==
    IF IsSome(local) THEN Append(locals, Unwrap(local)) ELSE locals

\* The walk enters its root.
EnterRoot ==
    /\ status = "run"
    /\ LET f == Active IN
       /\ ~f.done /\ f.stack = <<>> /\ f.nEv = 0
       /\ \E kind \in RootKinds(f) :
            Commit(f,
                   [f EXCEPT !.stack = <<Opened(f, kind, f.rootEnd)>>,
                             !.nEv = 1],
                   Event("enter", TRUE, 1, TextRange(0, f.rootEnd),
                         Element(kind, "NONE"), NoDesc, NoLit, NoHdr))

\* The root of a ranged walk is covering_element(range), a token replaced
\* by its parent (lines 47-50): the smallest element that contains the
\* range, found by going down into the first child that contains it.  So
\* the first child of the root that contains the range, if there is one, is
\* a token.  A node that begins at f.pos may be a child of the root only if
\* it does not contain the range, or an earlier child did: the range is
\* empty and lies at f.pos, where the child before ends.
IsCoveringRoot(f, range) ==
    \/ ~f.ranged
    \/ Len(f.stack) # 1
    \/ ~contains_range(range, f.rth)
    \/ (f.rth.start = f.rth.end /\ f.rth.start = f.pos /\ f.pos > 0)

\* The walk enters a node.
EnterNode ==
    /\ status = "run"
    /\ LET f == Active IN
       /\ ~f.done /\ f.stack # <<>> /\ f.script = <<>>
       /\ f.nElems < MaxElems /\ Len(f.stack) <= MaxDepth
       /\ \E c \in NodeChoices(f) :
            /\ IsCoveringRoot(f, TextRange(f.pos, f.pos + c.len))
            /\ Commit(f,
                   [f EXCEPT
                      !.stack = Append(@, Opened(f, c.el.kind, c.len)),
                      !.script = c.script,
                      !.nEv = @ + 1, !.nElems = @ + 1,
                      !.locals = WithLocal(@, c.local),
                      !.nestedMc = @ \/ (c.el.kind = "MACRO_CALL"
                                         /\ Innermost(f, "MACRO_CALL") # 0)],
                   Event("enter", TRUE, f.nEv + 1,
                         TextRange(f.pos, f.pos + c.len),
                         c.el, NoDesc, NoLit, c.hdr))

\* The walk enters a token (and leaves it: a leave event of a token is
\* ignored by the loop, line 98).
EnterToken ==
    /\ status = "run"
    /\ LET f == Active IN
       /\ ~f.done /\ f.stack # <<>> /\ f.script = <<>>
       /\ f.nElems < MaxElems
       /\ \E c \in TokenChoices(f) :
            Commit(f,
                   [f EXCEPT !.pos = @ + c.len, !.nEv = @ + 1,
                             !.nElems = @ + 1,
                             !.locals = WithLocal(@, c.local)],
                   Event("enter", FALSE, f.nEv + 1,
                         TextRange(f.pos, f.pos + c.len),
                         c.el, c.desc, c.lit, NoHdr))

AfterLeave(f) ==
    [f EXCEPT !.stack = SubSeq(@, 1, Len(@) - 1),
              !.script = IF @ = <<>> THEN @ ELSE Tail(@),
              !.done = Len(f.stack) = 1]

LeaveEvent(f) ==
    Event("leave", TRUE, Top(f).id, Top(f).range,
          Element(Top(f).kind,
                  IF Len(f.stack) = 1 THEN "NONE"
                  ELSE f.stack[Len(f.stack) - 1].kind),
          NoDesc, NoLit, NoHdr)

\* The walk goes through the children every node of the entered kind has.
Scripted ==
    /\ status = "run"
    /\ LET f == Active
           item == Head(f.script)
           pk == ParentKind(f)
       IN
       /\ ~f.done /\ f.script # <<>>
       /\ CASE item.op = "node" ->
                 Commit(f,
                        [f EXCEPT !.stack = Append(@, Opened(f, item.kind, item.len)),
                                  !.script = Tail(@), !.nEv = @ + 1],
                        Event("enter", TRUE, f.nEv + 1,
                              TextRange(f.pos, f.pos + item.len),
                              Element(item.kind, pk), NoDesc, NoLit, NoHdr))
            [] item.op = "token" ->
                 Commit(f,
                        [f EXCEPT !.pos = @ + item.len, !.script = Tail(@),
                                  !.nEv = @ + 1],
                        Event("enter", FALSE, f.nEv + 1,
                              TextRange(f.pos, f.pos + item.len),
                              Element(item.kind, pk), Same(item.kind, pk),
                              NoLit, NoHdr))
            [] OTHER -> Commit(f, AfterLeave(f), LeaveEvent(f))

\* The walk leaves the innermost open node, all of whose text was walked.
LeaveNode ==
    /\ status = "run"
    /\ LET f == Active IN
       /\ ~f.done /\ f.stack # <<>> /\ f.script = <<>>
       /\ f.pos = Top(f).range.end
       /\ Commit(f, AfterLeave(f), LeaveEvent(f))

ReturnEvent == [NoEvent EXCEPT !.op = "return"]

\* The outermost pass returns res.
Finish ==
    /\ status = "run"
    /\ Len(frames) = 1 /\ Active.done
    /\ status' = "done"
    /\ result' = Active.res
    /\ ev' = ReturnEvent
    /\ UNCHANGED <<frames, docClass, textVars>>

Resume(caller, fin) ==
    /\ status' = IF fin.panic THEN "panic_map" ELSE status
    /\ frames' = IF fin.panic THEN frames
                 ELSE [SubSeq(frames, 1, Len(frames) - 1)
                         EXCEPT ![Len(frames) - 1] =
                             [caller EXCEPT !.res = fin.acc, !.lit = None]]

\* A nested pass returns to highlight_injection, which translates its ranges
\* and closes the literal; the caller's loop then continues (line 123).
ReturnFromNested ==
    /\ status = "run"
    /\ Len(frames) > 1 /\ Active.done
    /\ Resume(frames[Len(frames) - 1],
              FinishInjection(Unwrap(frames[Len(frames) - 1].lit).tok, Active.res,
                              frames[Len(frames) - 1].res,
                              Unwrap(frames[Len(frames) - 1].lit).own))
    /\ ev' = ReturnEvent
    /\ UNCHANGED <<result, docClass, textVars>>

Next ==
    \/ EnterRoot
    \/ EnterNode
    \/ EnterToken
    \/ Scripted
    \/ LeaveNode
    \/ Finish
    \/ ReturnFromNested

Spec == Init /\ [][Next]_vars

\* The passes over the documents that can hold fixture literals.
\* highlight() runs on one thread and is not suspended: while the pass has a
\* next step, the step is taken.
InitInject ==
    Init /\ docClass = "inject" /\ frames[1].rootEnd <= MaxFairDocLen
FairSpec == InitInject /\ [][Next]_vars /\ WF_vars(Next)

(***************************************************************************)
(* The functions of a text: a text is given, its LineIndex is built, and   *)
(* the functions are called on it with arguments from bounded sets.        *)
(***************************************************************************)
RECURSIVE Strs(_)
Strs(n) ==
    IF n = 0 THEN {<<>>}
    ELSE Strs(n - 1) \cup {Append(t, c) : t \in Strs(n - 1), c \in Chars}

TextLen == Len(Utf8(input))

\* A string token with this text at offset o of its file.
TokenAt(bytes, o) == [text |-> bytes, range |-> TextRange(o, o + Len(bytes))]

InitText ==
    /\ docClass = "text"
    /\ frames = <<>>
    /\ status = "idle"
    /\ result = <<>>
    /\ ev = NoEvent
    /\ input \in Strs(MaxTextLen)
    /\ lineIndex = LineIndexNew(input)
    /\ call = NoCall

Returned(op, arg, out) ==
    /\ call' = Call(op, arg, out)
    /\ UNCHANGED <<frames, status, result, ev, docClass, input, lineIndex>>

\* HasQuotes::quote_offsets of a token with the text
CallQuoteOffsets ==
    /\ docClass = "text"
    /\ \E o \in 0..MaxTokStart :
          Returned("quote_offsets", TokenAt(Utf8(input), o),
                   quote_offsets(TokenAt(Utf8(input), o)))

\* LineIndex::line_col
CallLineCol ==
    /\ docClass = "text"
    /\ \E o \in 0..TextLen :
          Returned("line_col", o, line_col(lineIndex, o))

\* LineIndex::lines
CallLines ==
    /\ docClass = "text"
    /\ \E start \in 0..TextLen :
          \E end \in start..TextLen :
             Returned("lines", TextRange(start, end),
                      lines(lineIndex, TextRange(start, end)))

\* LineIndex::offset, for a line of the text
CallOffset ==
    /\ docClass = "text"
    /\ \E line \in 0..(Len(lineIndex.newlines) - 1) :
          \E col \in 0..TextLen :
             Returned("offset", LineCol(line, col),
                      offset(lineIndex, LineCol(line, col)))

NextText ==
    \/ CallQuoteOffsets
    \/ CallLineCol
    \/ CallLines
    \/ CallOffset

SpecText == InitText /\ [][NextText]_vars

(***************************************************************************)
(* Properties of the highlighting pass.                                    *)
(***************************************************************************)
Results(k) == frames[k].res

IsLocalDef(h) == h.own.what = "element" /\ h.own.local # 0 /\ h.own.isDef
IsLocalRef(h) == h.own.what = "element" /\ h.own.local # 0 /\ ~h.own.isDef
NameOf(h) == Unwrap(h.binding_hash)[1]
GenerationOf(h) == Unwrap(h.binding_hash)[2]

\* C1: within one function body, a reference to a local binding carries the
\* binding identity of the definition it resolves to, and of no other
\* definition of that function.
C1_ReferenceSharesIdentity ==
    \A k \in 1..Len(frames) :
       \A i, j \in 1..Len(Results(k)) :
          (/\ IsLocalDef(Results(k)[i]) /\ IsLocalRef(Results(k)[j])
           /\ Results(k)[i].own.fn # 0
           /\ Results(k)[i].own.fn = Results(k)[j].own.fn)
          => (Results(k)[j].own.local = Results(k)[i].own.local
              <=> Results(k)[j].binding_hash = Results(k)[i].binding_hash)

\* C2: map_range_up, applied to a raw string literal at whatever offset and
\* to a range the nested pass produced for its content, does not fail its
\* assertion and returns the range moved by the offset of the content in the
\* file.
MapsUp(tok, range) ==
    map_range_up(tok, range)
    = [panic |-> FALSE,
       value |-> Some(Shift(range, Unwrap(text_range_between_quotes(tok)).start))]

C2_MapRangeUpTranslates ==
    /\ status # "panic_map"
    /\ \A k \in 1..(Len(frames) - 1) :
          IsSome(frames[k].lit)
          => \A i \in 1..Len(Results(k + 1)) :
                MapsUp(Unwrap(frames[k].lit).tok, Results(k + 1)[i].range)

\* C3: ranges are appended in the order in which the elements they belong to
\* are entered, and the Macro range of an invocation stands before every
\* range produced for an element inside that invocation.
C3_DocumentOrder ==
    \A k \in 1..Len(frames) :
       \A i, j \in 1..Len(Results(k)) :
          /\ i < j => Results(k)[i].own.at <= Results(k)[j].own.at
          /\ (/\ Results(k)[i].own.what = "macro"
              /\ Results(k)[i].own.at \in Results(k)[j].own.macros)
             => i < j

C3_Witness ==
    /\ status = "done"
    /\ \E i, j \in 1..Len(result) :
          /\ result[i].own.what = "macro"
          /\ result[i].own.at \in result[j].own.macros
          /\ \E l \in 1..Len(result) : l > j /\ result[l].own.macros = {}

\* The quotation marks of a literal's text, counted from 1.
QuoteMarks(text) == {i \in 1..Len(text) : text[i] = Quote}
FirstMark(text) == CHOOSE i \in QuoteMarks(text) : \A j \in QuoteMarks(text) : i <= j
LastMark(text) == CHOOSE i \in QuoteMarks(text) : \A j \in QuoteMarks(text) : i >= j

IsStringLiteral(h, range) ==
    /\ h.highlight = Highlight("StringLiteral")
    /\ h.binding_hash = None
    /\ h.range = range

\* out is base, which ends with the opening quote of tok, followed by the
\* ranges of nested moved to the content of tok and by the closing quote.
InjectedAs(out, base, nested, tok) ==
    /\ Len(out) = Len(base) + Len(nested) + 1
    /\ SubSeq(out, 1, Len(base)) = base
    /\ base # <<>>
    /\ IsStringLiteral(base[Len(base)],
                       TextRange(tok.range.start,
                                 tok.range.start + FirstMark(tok.text)))
    /\ \A i \in 1..Len(nested) :
          /\ out[Len(base) + i].highlight = nested[i].highlight
          /\ out[Len(base) + i].binding_hash = nested[i].binding_hash
          /\ out[Len(base) + i].range
             = Shift(nested[i].range, tok.range.start + FirstMark(tok.text))
    /\ IsStringLiteral(out[Len(out)],
                       TextRange(tok.range.start + LastMark(tok.text) - 1,
                                 tok.range.end))
    /\ \A i \in 1..Len(out) : ~IsStringLiteral(out[i], tok.range)

\* C4: when the injection into a literal succeeds, the output gains, in this
\* order and with nothing between them, a StringLiteral range over the
\* opening quote, the ranges of the nested pass in the nested pass's order,
\* each moved into the literal, and a StringLiteral range over the closing
\* quote; the literal gets no StringLiteral range over the whole token.
C4_InjectionOutput ==
    [][(ev'.op = "return" /\ Len(frames') < Len(frames))
       => InjectedAs(frames'[Len(frames')].res, frames[Len(frames) - 1].res,
                     Active.res, Unwrap(frames[Len(frames) - 1].lit).tok)]_vars

C4_Witness ==
    /\ status = "done"
    /\ \E i \in 2..(Len(result) - 1) :
          /\ result[i].own.what = "nested"
          /\ result[i].highlight = Highlight("Keyword")
          /\ result[i - 1].own.what = "open"
          /\ result[i + 1].own.what = "close"

\* The cases in which highlight_injection gives up: no call information for
\* the token, no active parameter, no parameter name at the active index, a
\* name that does not begin with ra_fixture, or a literal without a content.
NotAFixture(ci) ==
    \/ IsNone(ci)
    \/ IsNone(Unwrap(ci).active_parameter)
    \/ Unwrap(Unwrap(ci).active_parameter) >= Len(Unwrap(ci).parameter_names)
    \/ ~starts_with(
          Unwrap(ci).parameter_names[Unwrap(Unwrap(ci).active_parameter) + 1],
          FixturePrefix)

GivesUp(e) == NotAFixture(e.lit.ci) \/ Cardinality(QuoteMarks(e.lit.text)) < 2

IsRawString(e) == e.op = "enter" /\ ~e.isNode /\ e.kind = "RAW_STRING"

\* C5: when injection gives up in one of these cases, it appends nothing and
\* raises no error, no nested analysis runs, and the literal gets exactly one
\* StringLiteral range, over the whole token.
C5_InjectionGivesUp ==
    [][(/\ IsRawString(ev') /\ GivesUp(ev')
        /\ InViewport(Active.rth, ev'.range) /\ IsNone(Active.cmc))
       => /\ Len(frames') = Len(frames)
          /\ status' = status
          /\ Len(frames'[Len(frames)].res) = Len(Active.res) + 1
          /\ SubSeq(frames'[Len(frames)].res, 1, Len(Active.res)) = Active.res
          /\ IsStringLiteral(frames'[Len(frames)].res[Len(Active.res) + 1],
                             ev'.range)]_vars

C5_Witness ==
    /\ IsRawString(ev)
    /\ ~IsNone(ev.lit.ci)
    /\ ~IsNone(Unwrap(ev.lit.ci).active_parameter)
    /\ NotAFixture(ev.lit.ci)
    /\ Cardinality(QuoteMarks(ev.lit.text)) = 2
    /\ Active.res # <<>>
    /\ IsStringLiteral(Active.res[Len(Active.res)], ev.range)

\* Two ranges with a gap between them: TextRange::intersect gives None.
Apart(a, b) == a.end < b.start \/ b.end < a.start

\* The macro calls the walk stands in that reach into the requested range.
MacrosInRange(f) ==
    {f.stack[i].id : i \in {j \in 1..Len(f.stack) :
                               /\ f.stack[j].kind = "MACRO_CALL"
                               /\ ~Apart(f.rth, f.stack[j].range)}}

\* C6: as long as no macro invocation stands inside another, the assertion
\* on leaving a macro invocation does not fail, the macro context is set
\* exactly from the enter to the leave event of each invocation that reaches
\* into the requested range, and it is clear when the walk ends.
C6_MacroContextTracksWalk ==
    \A k \in 1..Len(frames) :
       ~frames[k].nestedMc
       => /\ ~(k = Len(frames) /\ status = "panic_macro")
          /\ \A m \in MacrosInRange(frames[k]) : frames[k].cmc = Some(m)
          /\ MacrosInRange(frames[k]) = {} => frames[k].cmc = None
          /\ frames[k].done => frames[k].cmc = None

C6_Witness ==
    /\ status = "done"
    /\ frames[1].ranged /\ ~frames[1].nestedMc
    /\ frames[1].rth.end < frames[1].rootEnd
    /\ \E i \in 1..Len(result) : result[i].own.what = "macro"
    /\ \E i \in 1..Len(result) : result[i].own.macros = {}

\* C7: the pass aborts when the macro invocation being left is not the
\* current macro context; so a pass that entered a macro invocation while
\* another one was current does not return.
C7_NestedMacroAborts ==
    /\ [][(/\ ev'.op = "leave" /\ ev'.isNode /\ ev'.kind = "MACRO_CALL"
           /\ ~Apart(Active.rth, ev'.range)
           /\ Active.cmc # Some(ev'.id))
          => status' = "panic_macro" /\ result' = <<>>]_vars
    /\ [](\A k \in 1..Len(frames) : frames[k].done => ~frames[k].nestedEnter)
    /\ [](status = "done" => ~frames[1].nestedEnter)

C7_Witness ==
    /\ status = "panic_macro"
    /\ Active.nestedEnter
    /\ ev.op = "leave" /\ ev.kind = "MACRO_CALL"
    /\ Active.cmc # Some(ev.id)

\* C8: an event whose element has a gap to the requested range is skipped
\* entirely: it leaves the output, the macro context and the shadow table as
\* they are and cannot make the pass fail; no range is produced for such an
\* element.
C8_OutsideRangeSkipped ==
    /\ [][(ev'.op \in {"enter", "leave"} /\ Apart(Active.rth, ev'.range))
          => /\ Len(frames') = Len(frames)
             /\ status' = status
             /\ frames'[Len(frames)].res = Active.res
             /\ frames'[Len(frames)].cmc = Active.cmc
             /\ frames'[Len(frames)].table = Active.table]_vars
    /\ [](\A k \in 1..Len(frames) :
             \A i \in 1..Len(Results(k)) :
                ~Apart(frames[k].rth, Results(k)[i].own.range))

C8_Witness ==
    /\ ev.op = "enter" /\ ev.kind = "NAME" /\ ev.el.def.local # 0
    /\ Apart(Active.rth, ev.range)
    /\ Active.res # <<>>
    /\ Active.table = EmptyTable

\* Earlier definitions of the same name in the same function.
EarlierIn(res, i) ==
    {j \in 1..(i - 1) : /\ IsLocalDef(res[j])
                        /\ NameOf(res[j]) = NameOf(res[i])
                        /\ res[j].own.fn = res[i].own.fn}

\* C9: entering a FN_DEF node empties the shadow table and produces no
\* range, so the first definition of a local name in each function has
\* generation 1.
C9_FirstDefinitionIsGenerationOne ==
    /\ (/\ ev.op = "enter" /\ ev.isNode /\ ev.kind = "FN_DEF"
        /\ ~Apart(Active.rth, ev.range) /\ IsNone(Active.cmc))
       => /\ Active.table = EmptyTable
          /\ \A i \in 1..Len(Active.res) : Active.res[i].own.at # ev.id
    /\ \A k \in 1..Len(frames) :
          \A i \in 1..Len(Results(k)) :
             (/\ IsLocalDef(Results(k)[i])
              /\ Results(k)[i].own.fn # 0
              /\ EarlierIn(Results(k), i) = {})
             => GenerationOf(Results(k)[i]) = 1

\* Earlier definitions of the same name since the table was last cleared.
EarlierSinceClear(res, i) ==
    {j \in 1..(i - 1) : /\ IsLocalDef(res[j])
                        /\ NameOf(res[j]) = NameOf(res[i])
                        /\ res[j].own.epoch = res[i].own.epoch}

\* C10: the k-th definition of a name since the shadow table was last
\* cleared has generation k and the identity of (name, k); hence two
\* definitions of one name inside one function body have different
\* generations.
C10_GenerationsDiffer ==
    \A k \in 1..Len(frames) :
       \A i \in 1..Len(Results(k)) :
          IsLocalDef(Results(k)[i])
          => /\ Results(k)[i].binding_hash
                = Some(calc_binding_hash(
                         NameOf(Results(k)[i]),
                         Cardinality(EarlierSinceClear(Results(k), i)) + 1))
             /\ Results(k)[i].own.fn # 0
                => \A j \in EarlierIn(Results(k), i) :
                      GenerationOf(Results(k)[j]) # GenerationOf(Results(k)[i])

\* The event is handed to the classifier or dropped: it is no macro call
\* node, and no nested analysis starts with it.
IsClassifierStep ==
    /\ ev'.op = "enter"
    /\ ~(ev'.isNode /\ ev'.kind = "MACRO_CALL")
    /\ Len(frames') = Len(frames)

\* C11: a range produced through the classifier is the full text range of
\* the element the walk entered, also when the classifier saw the expanded
\* token or its NAME / NAME_REF parent; so a Comment, StringLiteral,
\* NumericLiteral, ByteLiteral, CharLiteral or Attribute range is exactly
\* the range of its token.
C11_OriginalElementRange ==
    [][(IsClassifierStep /\ frames'[Len(frames)].res # Active.res)
       => /\ Len(frames'[Len(frames)].res) = Len(Active.res) + 1
          /\ SubSeq(frames'[Len(frames)].res, 1, Len(Active.res)) = Active.res
          /\ frames'[Len(frames)].res[Len(Active.res) + 1].range = ev'.range]_vars

C11_Witness ==
    /\ ev.op = "enter" /\ ~ev.isNode /\ ev.kind = "IDENT"
    /\ ev.range.start > 0
    /\ IsSome(Active.cmc)
    /\ ev.desc.parent.kind = "NAME_REF"
    /\ Active.res # <<>>
    /\ Active.res[Len(Active.res)].range = ev.range
    /\ IsSome(Active.res[Len(Active.res)].binding_hash)

\* C12: in every output, the ranges of nested passes included, a range has a
\* binding identity only if its tag is Local; the Macro range of an
\* invocation and the StringLiteral ranges of the quotes have none.
C12_IdentityOnlyOnLocals ==
    /\ \A k \in 1..Len(frames) :
          \A i \in 1..Len(Results(k)) :
             /\ IsSome(Results(k)[i].binding_hash)
                => Results(k)[i].highlight.tag = "Local"
             /\ Results(k)[i].own.what \in {"macro", "open", "close"}
                => IsNone(Results(k)[i].binding_hash)
    /\ \A i \in 1..Len(result) :
          IsSome(result[i].binding_hash) => result[i].highlight.tag = "Local"

C12_Witness ==
    /\ status = "done"
    /\ \E i \in 1..Len(result) :
          /\ result[i].own.what = "nested"
          /\ IsSome(result[i].binding_hash)
          /\ result[i].highlight.tag = "Local"

\* What C13 says quote_offsets yields for a token with two quotes or more.
QuotesOf(tok) ==
    [quotes |-> <<TextRange(tok.range.start,
                            tok.range.start + FirstMark(tok.text)),
                  TextRange(tok.range.start + LastMark(tok.text) - 1,
                            tok.range.start + Len(tok.text))>>,
     contents |-> TextRange(tok.range.start + FirstMark(tok.text),
                            tok.range.start + LastMark(tok.text) - 1)]

Tiles(offsets, range) ==
    /\ offsets.quotes[1].start = range.start
    /\ offsets.quotes[1].end = offsets.contents.start
    /\ offsets.contents.end = offsets.quotes[2].start
    /\ offsets.quotes[2].end = range.end

\* C13: quote_offsets is absent exactly when the token text has fewer than
\* two quotes; otherwise it yields [o, o+f+1), [o+f+1, o+l) and [o+l, o+n)
\* for the first quote at byte f, the last at byte l, a text of n bytes and
\* a token at offset o, which tile the token's range; "abc" in quotes at
\* offset 0 has the content range [1, 4).
C13_QuoteOffsets ==
    /\ call.op = "quote_offsets"
       => /\ IsNone(call.out) <=> Cardinality(QuoteMarks(call.arg.text)) < 2
          /\ IsSome(call.out)
             => /\ Unwrap(call.out) = QuotesOf(call.arg)
                /\ Tiles(Unwrap(call.out), call.arg.range)
    /\ text_range_between_quotes(TokenAt(<<Quote, "a", "b", "c", Quote>>, 0))
       = Some(TextRange(1, 4))

C13_Witness ==
    /\ call.op = "quote_offsets"
    /\ call.arg.range.start > 0
    /\ Cardinality(QuoteMarks(call.arg.text)) = 2
    /\ IsSome(call.out)
    /\ Unwrap(call.out).contents.end - Unwrap(call.out).contents.start = 4
    /\ Unwrap(call.out).quotes[1].start < Unwrap(call.out).quotes[1].end

\* What the classifier is given for an event, if anything.
IsDefinitionOrFn(x) ==
    \/ x.kind = "FN_DEF"
    \/ x.kind = "NAME" /\ x.nameClass = "Definition" /\ x.def.kind = "Local"

ClassifiesDefinitionOrFn ==
    /\ ev'.op = "enter"
    /\ IsSome(element_to_highlight(Active.cmc, ev'))
    /\ IsDefinitionOrFn(Unwrap(element_to_highlight(Active.cmc, ev')))

\* C14: the shadow table is changed only by a definition of a local
\* (increment) and by entering a FN_DEF (clear); a name reference, also one
\* to a local whose name has no entry yet, leaves the table as it is.
C14_TableChangedOnlyByDefinitions ==
    [][(/\ Len(frames') >= Len(frames)
        /\ frames'[Len(frames)].table # Active.table)
       => ClassifiesDefinitionOrFn]_vars

\* The shadow count of a name: 0 when the table has no entry for it.
CountOf(table, name) == IF name \in DOMAIN table THEN table[name] ELSE 0

\* C14, amended: the shadow count of a name (0 for a name without entry) is
\* changed only by a definition of a local and by entering a FN_DEF; a name
\* reference changes no count and gets the identity of the current count.
C14_CountsChangedOnlyByDefinitions ==
    [][(/\ Len(frames') >= Len(frames)
        /\ \E n \in Names : CountOf(frames'[Len(frames)].table, n)
                            # CountOf(Active.table, n))
       => ClassifiesDefinitionOrFn]_vars

C14_Witness ==
    /\ ev.op = "enter" /\ ev.kind = "NAME_REF"
    /\ ev.el.def.kind = "Local"
    /\ ev.el.def.name = Some("x")
    /\ "x" \in DOMAIN Active.table
    /\ Active.table["x"] = 0
    /\ Active.res # <<>>
    /\ Active.res[Len(Active.res)].binding_hash = Some(calc_binding_hash("x", 0))

\* The path of a macro call and its `!`, among the children of the call.
PathOf(hdr) == hdr.sibs[CHOOSE i \in 1..Len(hdr.sibs) : hdr.sibs[i].kind = "PATH"]
BangOf(hdr) == hdr.sibs[CHOOSE i \in 1..Len(hdr.sibs) : hdr.sibs[i].kind = "BANG"]

IsMacroRange(h, range) ==
    /\ h.highlight = Highlight("Macro")
    /\ h.binding_hash = None
    /\ h.range = range

\* C15: the Macro range pushed on entering a macro invocation starts at the
\* start of the invocation's path and ends at the end of its `!`, for paths
\* of one segment and of several; it is pushed whenever the invocation has
\* a path whose segment has a name.
C15_MacroRangeSpansPath ==
    [][(/\ ev'.op = "enter" /\ ev'.isNode /\ ev'.kind = "MACRO_CALL"
        /\ ~Apart(Active.rth, ev'.range)
        /\ ev'.hdr.hasPath /\ ev'.hdr.hasNameRef)
       => /\ Len(frames'[Len(frames)].res) = Len(Active.res) + 1
          /\ IsMacroRange(frames'[Len(frames)].res[Len(Active.res) + 1],
                          TextRange(PathOf(ev'.hdr).range.start,
                                    BangOf(ev'.hdr).range.end))]_vars

\* break, continue, else, for, if, loop, match, return, while
ControlFlowTokens ==
    {"BREAK_KW", "CONTINUE_KW", "ELSE_KW", "FOR_KW", "IF_KW", "LOOP_KW",
     "MATCH_KW", "RETURN_KW", "WHILE_KW"}

IsKeywordHighlight(h, kind) ==
    /\ h.tag = "Keyword"
    /\ "ControlFlow" \in h.mods <=> kind \in ControlFlowTokens
    /\ "Unsafe" \in h.mods <=> kind = "UNSAFE_KW"
    /\ h.mods \in {{}, {"ControlFlow"}, {"Unsafe"}}

\* C16: a keyword token is tagged Keyword, with the ControlFlow modifier
\* exactly for break, continue, else, for, if, loop, match, return and
\* while, with the Unsafe modifier exactly for unsafe, never with both and
\* never with Definition or Mutable.
C16_KeywordModifiers ==
    (/\ ev.op = "enter" /\ ~ev.isNode /\ ev.kind \in Keywords
     /\ IsNone(Active.cmc) /\ ~Apart(Active.rth, ev.range))
    => /\ Active.res # <<>>
       /\ Active.res[Len(Active.res)].range = ev.range
       /\ IsKeywordHighlight(Active.res[Len(Active.res)].highlight, ev.kind)

C16_Witness ==
    /\ ev.op = "enter" /\ ev.kind = "UNSAFE_KW"
    /\ Len(Active.res) = 2
    /\ Active.res[2].highlight = WithMod(Highlight("Keyword"), "Unsafe")
    /\ Active.res[1].highlight = WithMod(Highlight("Keyword"), "ControlFlow")

\* The first k chars of a str, its length in bytes and in UTF-16 code units.
Prefix(str, k) == SubSeq(str, 1, k)
Bytes8(str) == Len(Utf8(str))

RECURSIVE Units16(_)
Units16(str) ==
    IF str = <<>> THEN 0 ELSE len_utf16(Head(str)) + Units16(Tail(str))

\* What follows the last newline of a str; the number of its newlines.
NewlinesIn(str) == {i \in 1..Len(str) : str[i] = Newline}
LastLine(str) ==
    IF NewlinesIn(str) = {} THEN str
    ELSE SubSeq(str,
                (CHOOSE i \in NewlinesIn(str) : \A j \in NewlinesIn(str) : i >= j) + 1,
                Len(str))

\* C17: for a byte offset on a char boundary of the text, the col_utf16 of
\* line_col is the number of UTF-16 code units between the start of the
\* offset's line and the offset, whatever the UTF-8 lengths (1 to 4 bytes)
\* of the chars of the text.
C17_ColumnCountsUtf16Units ==
    call.op = "line_col"
    => \A k \in 0..Len(input) :
          Bytes8(Prefix(input, k)) = call.arg
          => call.out.col_utf16 = Units16(LastLine(Prefix(input, k)))

\* The newlines of a text, by byte offset; the offsets at which lines start.
NewlineBytes(bytes) == {b \in 0..(Len(bytes) - 1) : bytes[b + 1] = Newline}
LineStarts(bytes) == {b + 1 : b \in NewlineBytes(bytes)}
IsAscii(str) == \A i \in 1..Len(str) : len_utf8(str[i]) = 1

Greatest(S) == CHOOSE x \in S : \A y \in S : x >= y

\* C18: line_col(offset) has as line the number of newlines strictly before
\* the byte offset and, for ASCII text, as column the distance to the offset
\* from the byte after the last of them (from 0 if there is none).
C18_LineAndColumn ==
    call.op = "line_col"
    => /\ call.out.line
          = Cardinality({b \in NewlineBytes(Utf8(input)) : b < call.arg})
       /\ IsAscii(input)
          => call.out.col_utf16
             = call.arg - Greatest({0} \cup {p \in LineStarts(Utf8(input)) :
                                               p <= call.arg})

C18_Witness ==
    /\ call.op = "line_col"
    /\ IsAscii(input)
    /\ Len(input) = 3 /\ input[2] = Newline /\ input[1] # Newline
    /\ call.arg = 2
    /\ call.out = LineCol(1, 0)

\* C19: lines(range) yields in increasing order non-empty ranges that are
\* contiguous, begin at range.start, finish at range.end and are cut exactly
\* at the line starts inside the range, so that a newline is at most the
\* last char of a range; it yields nothing for an empty range.
C19_LinesSplitAtLineStarts ==
    call.op = "lines"
    => /\ \A i \in 1..Len(call.out) : call.out[i].start < call.out[i].end
       /\ \A i \in 1..(Len(call.out) - 1) :
             call.out[i].end = call.out[i + 1].start
       /\ call.arg.start = call.arg.end => call.out = <<>>
       /\ call.arg.start < call.arg.end
          => /\ call.out # <<>>
             /\ call.out[1].start = call.arg.start
             /\ call.out[Len(call.out)].end = call.arg.end
       /\ {call.out[i].end : i \in 1..(Len(call.out) - 1)}
          = {p \in LineStarts(Utf8(input)) :
                call.arg.start < p /\ p < call.arg.end}
       /\ \A i \in 1..Len(call.out) :
             \A b \in NewlineBytes(Utf8(input)) :
                (call.out[i].start <= b /\ b < call.out[i].end)
                => b = call.out[i].end - 1

C19_Witness ==
    /\ call.op = "lines"
    /\ call.arg.start > 0
    /\ Len(call.out) = 2
    /\ call.out[2].end - call.out[2].start > 1

\* What a client sees of a HighlightedRange, with the element it belongs to.
Seen(h) == [range |-> h.range, highlight |-> h.highlight,
            binding_hash |-> h.binding_hash, at |-> h.own.at,
            owner |-> h.own.range]

SeenOf(res) == [i \in 1..Len(res) |-> Seen(res[i])]

\* C20: the result of a request for a range is the subsequence of the result
\* of the request for the whole file made of the ranges whose owning element
\* intersects the requested range: same ranges, tags, modifiers and binding
\* identities, in the same order.
C20_RangedIsFilteredFull ==
    \A k \in 1..Len(frames) :
       (frames[k].ranged /\ frames[k].full.on /\ ~frames[k].full.panic
        /\ status = "run")
       => SeenOf(frames[k].res)
          = SelectSeq(SeenOf(frames[k].full.res),
                      LAMBDA h : InViewport(frames[k].rth, h.owner))

\* The result j belongs to the function of the definition i and comes after
\* a function definition nested in that function was entered behind i.
AfterNestedFn(res, i, j) ==
    /\ IsLocalDef(res[i]) /\ i < j
    /\ res[i].own.fn # 0 /\ res[j].own.fn = res[i].own.fn
    /\ res[i].own.epoch < res[j].own.epoch

\* C21: a function definition nested in a function's body does not disturb
\* the identities of the enclosing function's locals: a reference classified
\* after the nested function carries the identity of the definition it
\* resolves to, and a later definition of an outer name gets an identity
\* different from the earlier definitions of that name in the outer function.
C21_NestedFnKeepsOuterIdentities ==
    \A k \in 1..Len(frames) :
       \A i, j \in 1..Len(Results(k)) :
          AfterNestedFn(Results(k), i, j)
          => /\ (IsLocalRef(Results(k)[j])
                 /\ Results(k)[j].own.local = Results(k)[i].own.local)
                => Results(k)[j].binding_hash = Results(k)[i].binding_hash
             /\ (IsLocalDef(Results(k)[j])
                 /\ NameOf(Results(k)[j]) = NameOf(Results(k)[i]))
                => Results(k)[j].binding_hash # Results(k)[i].binding_hash

\* The walk enters an element that is not apart from the requested range
\* while a macro call is current.
EntersInMacroContext ==
    /\ status = "run"
    /\ IsSome(Active.cmc)
    /\ ev'.op = "enter"
    /\ ~Apart(Active.rth, ev'.range)

\* An entered token whose immediate parent is a TOKEN_TREE (line 106).
TokenOfTokenTree(e) == ~e.isNode /\ e.parentKind = "TOKEN_TREE"

\* C22, as the specification states it: while a macro call is current, only
\* an entered token whose parent is a TOKEN_TREE can produce a range; every
\* other entered element (any node, a token of the path, of the name or the
\* `!`) produces no range and leaves the shadow table as it is, so a FN_DEF
\* node entered there does not clear it.
C22_MacroContextOnlyTokenTreeTokens ==
    [][(EntersInMacroContext /\ ~TokenOfTokenTree(ev'))
       => /\ Len(frames') = Len(frames)
          /\ status' = "run"
          /\ frames'[Len(frames)].res = Active.res
          /\ frames'[Len(frames)].table = Active.table]_vars

\* What entering a MACRO_CALL node adds to the result (lines 76-86): nothing
\* when macro_call_range has no answer, else one Macro range without a
\* binding identity.
MacroRangeOnly(res, res_) ==
    \/ res_ = res
    \/ /\ Len(res_) = Len(res) + 1
       /\ SubSeq(res_, 1, Len(res)) = res
       /\ res_[Len(res_)].highlight = Highlight("Macro")
       /\ IsNone(res_[Len(res_)].binding_hash)

\* C22, amended: while a macro call is current, every entered element other
\* than a token whose parent is a TOKEN_TREE leaves the shadow table as it
\* is (a FN_DEF node does not clear it) and starts no pass; it produces no
\* range either, unless it is a MACRO_CALL node, which becomes the current
\* macro call and may add its Macro range.
C22_OnlyTokenTreeTokensAndMacroCalls ==
    [][(EntersInMacroContext /\ ~TokenOfTokenTree(ev'))
       => /\ Len(frames') = Len(frames)
          /\ status' = "run"
          /\ frames'[Len(frames)].table = Active.table
          /\ IF ev'.isNode /\ ev'.kind = "MACRO_CALL"
             THEN /\ MacroRangeOnly(Active.res, frames'[Len(frames)].res)
                  /\ IsSome(frames'[Len(frames)].cmc)
             ELSE frames'[Len(frames)].res = Active.res]_vars

\* The `!` of a macro call has been entered in macro context, after a local
\* was counted in the shadow table; the last range is the call's Macro range.
C22_Witness ==
    /\ status = "run"
    /\ ev.op = "enter" /\ ~ev.isNode /\ ev.kind = "BANG"
    /\ ev.parentKind = "MACRO_CALL"
    /\ IsSome(Active.cmc)
    /\ Active.table # EmptyTable
    /\ Active.res # <<>>
    /\ Active.res[Len(Active.res)].highlight = Highlight("Macro")

Ordered(res) ==
    \A i \in 1..(Len(res) - 1) : res[i].range.start <= res[i + 1].range.start

\* C23: the sequence highlight returns, and the accumulator of every pass on
\* its way, is ordered by non-decreasing range start, for every tree and
\* requested range, the Macro ranges and the ranges of injections included.
C23_OrderedByStart ==
    /\ Ordered(result)
    /\ \A k \in 1..Len(frames) : Ordered(Results(k))

\* The byte offsets of the text that lie on a char boundary.
Boundaries(str) == {Bytes8(Prefix(str, k)) : k \in 0..Len(str)}

\* C24: LineIndex::offset is the inverse of LineIndex::line_col: for every
\* byte offset o on a char boundary of the text, offset(line_col(o)) = o,
\* also in a text with multi-byte chars and at the start of such a char.
C24_OffsetInvertsLineCol ==
    call.op = "offset"
    => \A o \in Boundaries(input) :
          line_col(lineIndex, o) = call.arg => call.out = o

\* The pass k was started for the literal its caller waits for: its document
\* is the text between the quotes of that literal, and is shorter than the
\* caller's document.
RunsOnContent(k) ==
    /\ IsSome(frames[k - 1].lit)
    /\ Cardinality(QuoteMarks(Unwrap(frames[k - 1].lit).tok.text)) >= 2
    /\ frames[k].rootEnd
       = LastMark(Unwrap(frames[k - 1].lit).tok.text)
         - FirstMark(Unwrap(frames[k - 1].lit).tok.text) - 1
    /\ frames[k].rootEnd < frames[k - 1].rootEnd

\* highlight has returned or was aborted by a failed assertion.
Terminated == status \in {"done", "panic_macro", "panic_map", "panic_unwrap"}

\* The document has more elements than MaxElems: text is left in the
\* innermost open node, and the walk is not followed further.
BeyondBounds ==
    /\ status = "run"
    /\ Active.nElems = MaxElems /\ Active.script = <<>>
    /\ Active.stack # <<>> /\ Active.pos < Top(Active).range.end

\* C25: a pass over a finite document terminates: the document of every
\* nested pass is the content between the quotes of a literal, strictly
\* shorter than the document that holds the literal, and every walk (of a
\* document of at most MaxElems elements) comes to its end.
C25_PassTerminates ==
    /\ [](\A k \in 2..Len(frames) : RunsOnContent(k))
    /\ <>(Terminated \/ BeyondBounds)

C25_Witness ==
    /\ status = "done"
    /\ \E i \in 1..(Len(result) - 1) :
          /\ result[i].own.what = "open"
          /\ result[i + 1].own.what = "close"
          /\ result[i + 1].range.start - result[i].range.end >= 2

=============================================================================
